---- MODULE Spec2Model ----
(***************************************************************************)
(* BurgerCraftApp (src/script.js): the order lifecycle of the ordering     *)
(* widget.  A form submit validates the input and builds a draft order     *)
(* with a fresh order id; the confirmation modal either commits the draft  *)
(* to the order list (persisted in localStorage) or discards it.           *)
(*                                                                         *)
(* JavaScript values are tagged records, so that a number, NaN, null, an   *)
(* array and an object stay distinct.  A JavaScript string is a sequence   *)
(* of one-character strings; the names of the burger types and the status  *)
(* are kept as atomic strings, the code only compares and copies them.     *)
(* Prices are in integer cents.                                            *)
(***************************************************************************)
EXTENDS Integers, Sequences, FiniteSets, TLC

VARIABLES
    orders,             \* this.orders
    orderCounter,       \* this.orderCounter
    currentOrder,       \* this.currentOrder
    confirmationActive, \* confirmationModal.classList.contains('active')
    successActive,      \* successModal.classList.contains('active')
    orderNumberText,    \* orderNumberSpan.textContent
    rows,               \* the rows of ordersTableBody
    localStorage,       \* the two keys of window.localStorage
    issued,             \* history: every id generateOrderId has returned
    last,               \* history: the last handler and what it met
    env,                \* history: the storage at the first start, the handlers a storage call failed
    submitted           \* history: the input of the last handler, if it was a submit, and the errors shown

vars == <<orders, orderCounter, currentOrder, confirmationActive, successActive,
          orderNumberText, rows, localStorage, issued, last, env, submitted>>

-----------------------------------------------------------------------------
(* Bounds of the model.                                                    *)

\* generateOrderId is called at most MaxIssued times in a behaviour.
MaxIssued == 2

\* At most MaxFaults handlers of a behaviour meet a storage call that throws.
MaxFaults == 1

-----------------------------------------------------------------------------
(* JavaScript values.                                                      *)

NaN == [t |-> "NaN"]
Num(n) == [t |-> "number", v |-> n]
JsNull == [t |-> "null"]
JsArray(s) == [t |-> "array", v |-> s]

IsArray(x) == x.t = "array"
IsNumber(x) == x.t = "number"

\* x++ on a number; NaN + 1 is NaN.
JsIncrement(x) == IF IsNumber(x) THEN Num(x.v + 1) ELSE NaN

\* a * b on numbers; NaN if either is NaN.
JsTimes(a, b) == IF IsNumber(a) /\ IsNumber(b) THEN Num(a.v * b.v) ELSE NaN

DigitChars == <<"0", "1", "2", "3", "4", "5", "6", "7", "8", "9">>

IsDigit(c) == \E i \in 1..10 : DigitChars[i] = c

DigitValue(c) == (CHOOSE i \in 1..10 : DigitChars[i] = c) - 1

\* \s of a regular expression, and the white space trim() and parseInt skip.
IsSpace(c) == c \in {" ", "\t", "\n"}

RECURSIVE SkipSpace(_)
SkipSpace(s) == IF s # <<>> /\ IsSpace(Head(s)) THEN SkipSpace(Tail(s)) ELSE s

RECURSIVE DropTrailingSpace(_)
DropTrailingSpace(s) ==
    IF s # <<>> /\ IsSpace(s[Len(s)])
    THEN DropTrailingSpace(SubSeq(s, 1, Len(s) - 1))
    ELSE s

\* String.prototype.trim
Trim(s) == DropTrailingSpace(SkipSpace(s))

\* The value of the longest prefix of decimal digits of s, after acc.
RECURSIVE DigitPrefixValue(_, _)
DigitPrefixValue(s, acc) ==
    IF s # <<>> /\ IsDigit(Head(s))
    THEN DigitPrefixValue(Tail(s), acc * 10 + DigitValue(Head(s)))
    ELSE acc

\* parseInt(s) with no radix: leading white space is skipped, one sign is read,
\* then the longest prefix of decimal digits; NaN when there is no digit.
\* (Hexadecimal "0x" prefixes are not among the strings of this model.)
ParseInt(str) ==
    LET s == SkipSpace(str)
        signed == s # <<>> /\ Head(s) \in {"+", "-"}
        body == IF signed THEN Tail(s) ELSE s
        sign == IF signed /\ Head(s) = "-" THEN -1 ELSE 1
    IN  IF body = <<>> \/ ~IsDigit(Head(body))
        THEN NaN
        ELSE Num(sign * DigitPrefixValue(body, 0))

RECURSIVE NatToChars(_)
NatToChars(n) ==
    IF n < 10 THEN <<DigitChars[n + 1]>>
    ELSE NatToChars(n \div 10) \o <<DigitChars[(n % 10) + 1]>>

\* String(x) and x.toString() of a number.
NumberToString(x) ==
    IF ~IsNumber(x) THEN <<"N", "a", "N">>
    ELSE IF x.v < 0 THEN <<"-">> \o NatToChars(-x.v)
    ELSE NatToChars(x.v)

\* s.padStart(n, c) with a one-character c.
RECURSIVE PadStart(_, _, _)
PadStart(s, n, c) == IF Len(s) >= n THEN s ELSE PadStart(<<c>> \o s, n, c)

\* x.toFixed(2) of a price in cents.
ToFixed2(x) ==
    IF ~IsNumber(x) THEN <<"N", "a", "N">>
    ELSE NatToChars(x.v \div 100) \o <<".">> \o PadStart(NatToChars(x.v % 100), 2, "0")

-----------------------------------------------------------------------------
(* localStorage: a key holds no value, or a string.  A string is either    *)
(* given by its characters, or it is the JSON text of an array, given by   *)
(* the value JSON.parse makes of it.                                       *)

Absent == [t |-> "absent"]
Text(chars) == [t |-> "text", s |-> chars]
JsonText(value) == [t |-> "json", v |-> value]

\* The truthiness of what getItem returned: null and "" are falsy.
Truthy(stored) == stored # Absent /\ stored # Text(<<>>)

\* JSON.stringify of one value of an order's field: NaN is written as null.
JsonOfField(x) == IF x = NaN THEN JsNull ELSE x

OrderFields ==
    {"customerName", "phoneNumber", "hamburgerType", "quantity", "specialInstructions",
     "unitPrice", "totalPrice", "status", "orderDate", "orderId"}

IsOrder(e) == DOMAIN e = OrderFields

NumberFields == {"quantity", "unitPrice", "totalPrice"}

\* JSON.stringify then JSON.parse of one element of the order array.
JsonOfElement(e) ==
    IF IsOrder(e)
    THEN [f \in OrderFields |-> IF f \in NumberFields THEN JsonOfField(e[f]) ELSE e[f]]
    ELSE e

\* JSON.stringify(array)
JSONstringify(a) == JsonText(JsArray([i \in 1..Len(a.v) |-> JsonOfElement(a.v[i])]))

\* JSON.parse(string): [ok, value].  The texts given by their characters are
\* the literals null and an unsigned integer; anything else is a SyntaxError.
JSONparse(str) ==
    IF str.t = "json" THEN [ok |-> TRUE, value |-> str.v]
    ELSE IF str.s = <<"n", "u", "l", "l">> THEN [ok |-> TRUE, value |-> JsNull]
    ELSE IF str.s # <<>> /\ \A i \in 1..Len(str.s) : IsDigit(str.s[i])
         THEN [ok |-> TRUE, value |-> ParseInt(str.s)]
    ELSE [ok |-> FALSE, value |-> JsNull]

-----------------------------------------------------------------------------
(* The form.  A form input is what the fields hold when submit fires; the  *)
(* radio group holds NoSelection or the value of the checked input.        *)

NoSelection == "(none)"

ClassicBeef == "Classic Beef Burger"
GrilledChicken == "Grilled Chicken Burger"
PlantBased == "Plant-Based Veggie Burger"
DeluxeBBQ == "Deluxe BBQ Burger"

\* phone.replace(/\s/g, '')
RECURSIVE RemoveSpaces(_)
RemoveSpaces(s) ==
    IF s = <<>> THEN <<>>
    ELSE IF IsSpace(Head(s)) THEN RemoveSpaces(Tail(s))
    ELSE <<Head(s)>> \o RemoveSpaces(Tail(s))

AllDigits(s) == \A i \in 1..Len(s) : IsDigit(s[i])

\* ^[\+]?[1-9][\d]{0,15}$
MatchesInternational(s) ==
    LET body == IF s # <<>> /\ Head(s) = "+" THEN Tail(s) ELSE s
    IN  /\ body # <<>>
        /\ IsDigit(Head(body)) /\ Head(body) # "0"
        /\ Len(Tail(body)) <= 15
        /\ AllDigits(Tail(body))

\* [\d\s\-\(\)]{10,}$
MatchesLocalBody(s) ==
    /\ Len(s) >= 10
    /\ \A i \in 1..Len(s) : IsDigit(s[i]) \/ IsSpace(s[i]) \/ s[i] \in {"-", "(", ")"}

\* ^[\(]?[\d\s\-\(\)]{10,}$
MatchesLocal(s) ==
    \/ MatchesLocalBody(s)
    \/ s # <<>> /\ Head(s) = "(" /\ MatchesLocalBody(Tail(s))

\* isValidPhoneNumber as it would be with the second alternative only.
isValidPhoneNumberLocalOnly(phone) == MatchesLocal(RemoveSpaces(phone))

isValidPhoneNumber(phone) ==
    LET s == RemoveSpaces(phone) IN MatchesInternational(s) \/ MatchesLocal(s)

NameRequired == [field |-> "customerName", message |-> "Customer name is required"]
PhoneRequired == [field |-> "phoneNumber", message |-> "Phone number is required"]
PhoneInvalid == [field |-> "phoneNumber", message |-> "Please enter a valid phone number"]
BurgerRequired == [field |-> "hamburgerType", message |-> "Please select a burger type"]

\* validateForm as it would be if it returned at the first field that fails.
validateFormFirstFailure(form) ==
    LET errors ==
            IF Trim(form.customerName) = <<>> THEN {NameRequired}
            ELSE IF Trim(form.phoneNumber) = <<>> THEN {PhoneRequired}
            ELSE IF ~isValidPhoneNumber(form.phoneNumber) THEN {PhoneInvalid}
            ELSE IF form.hamburgerType = NoSelection THEN {BurgerRequired}
            ELSE {}
    IN  [isValid |-> errors = {}, errors |-> errors]

\* validateForm: [isValid, errors], errors being what showFieldError and
\* showError were called with.
validateForm(form) ==
    LET nameErrors == IF Trim(form.customerName) = <<>> THEN {NameRequired} ELSE {}
        phoneErrors ==
            IF Trim(form.phoneNumber) = <<>> THEN {PhoneRequired}
            ELSE IF ~isValidPhoneNumber(form.phoneNumber) THEN {PhoneInvalid}
            ELSE {}
        burgerErrors == IF form.hamburgerType = NoSelection THEN {BurgerRequired} ELSE {}
        errors == nameErrors \cup phoneErrors \cup burgerErrors
    IN  [isValid |-> errors = {}, errors |-> errors]

\* getBurgerPrice as it would be without || 12.99: undefined, and NaN once
\* multiplied, for a type the table does not hold.
getBurgerPriceNoDefault(burgerType) ==
    CASE burgerType = ClassicBeef -> Num(1299)
      [] burgerType = GrilledChicken -> Num(1199)
      [] burgerType = PlantBased -> Num(1099)
      [] burgerType = DeluxeBBQ -> Num(1599)
      [] OTHER -> NaN

\* getBurgerPrice: prices[burgerType] || 12.99, in cents.
getBurgerPrice(burgerType) ==
    CASE burgerType = ClassicBeef -> Num(1299)
      [] burgerType = GrilledChicken -> Num(1199)
      [] burgerType = PlantBased -> Num(1099)
      [] burgerType = DeluxeBBQ -> Num(1599)
      [] OTHER -> Num(1299)

-----------------------------------------------------------------------------
(* The methods of BurgerCraftApp, as functions of the state s of the app,  *)
(* the page and the storage.  s.threw says that the running handler has    *)
(* thrown: the statements after a throw do not run.  A storage call takes  *)
(* what the environment does with it: readOk, writeOk say whether getItem, *)
(* setItem return or throw.                                                *)

\* saveOrdersToStorage as it would be if it wrote the list as it was before
\* the new order was put in front.
saveOrdersToStorageStale(s, writeOk) ==
    IF s.threw THEN s
    ELSE IF writeOk
    THEN [s EXCEPT !.localStorage.orders = JSONstringify(JsArray(Tail(s.orders.v))),
                   !.ordersWrite = "ok"]
    ELSE [s EXCEPT !.ordersWrite = "failed"]

\* saveOrdersToStorage as it would be without its try and catch.
saveOrdersToStorageUncaught(s, writeOk) ==
    IF s.threw THEN s
    ELSE IF writeOk
    THEN [s EXCEPT !.localStorage.orders = JSONstringify(s.orders), !.ordersWrite = "ok"]
    ELSE [s EXCEPT !.ordersWrite = "failed", !.threw = TRUE]

\* saveOrdersToStorage: a setItem that throws is caught and logged.
saveOrdersToStorage(s, writeOk) ==
    IF s.threw THEN s
    ELSE IF writeOk
    THEN [s EXCEPT !.localStorage.orders = JSONstringify(s.orders), !.ordersWrite = "ok"]
    ELSE [s EXCEPT !.ordersWrite = "failed"]

\* loadOrdersFromStorage: a getItem or a JSON.parse that throws is caught.
loadOrdersFromStorage(storage, readOk) ==
    IF ~readOk THEN JsArray(<<>>)
    ELSE IF ~Truthy(storage.orders) THEN JsArray(<<>>)
    ELSE LET parsed == JSONparse(storage.orders)
         IN  IF parsed.ok THEN parsed.value ELSE JsArray(<<>>)

\* saveOrderCounterToStorage as it would be if it wrote the counter as it was
\* before the increment.
saveOrderCounterToStorageStale(s, writeOk) ==
    IF s.threw THEN s
    ELSE IF writeOk
    THEN [s EXCEPT !.localStorage.counter =
                       Text(NumberToString(IF IsNumber(s.orderCounter)
                                           THEN Num(s.orderCounter.v - 1) ELSE NaN)),
                   !.counterWrite = "ok"]
    ELSE [s EXCEPT !.counterWrite = "failed"]

\* saveOrderCounterToStorage
saveOrderCounterToStorage(s, writeOk) ==
    IF s.threw THEN s
    ELSE IF writeOk
    THEN [s EXCEPT !.localStorage.counter = Text(NumberToString(s.orderCounter)),
                   !.counterWrite = "ok"]
    ELSE [s EXCEPT !.counterWrite = "failed"]

\* loadOrderCounterFromStorage
loadOrderCounterFromStorage(storage, readOk) ==
    IF ~readOk THEN Num(1000)
    ELSE IF ~Truthy(storage.counter) THEN Num(1000)
    ELSE ParseInt(storage.counter.s)

\* `BC${String(this.orderCounter).padStart(4, '0')}`
FormatOrderId(counter) == <<"B", "C">> \o PadStart(NumberToString(counter), 4, "0")

\* generateOrderId: [s, id]
generateOrderId(s, writeOk) ==
    LET s1 == [s EXCEPT !.orderCounter = JsIncrement(s.orderCounter)]
        s2 == saveOrderCounterToStorage(s1, writeOk)
        id == FormatOrderId(s2.orderCounter)
    IN  [s |-> [s2 EXCEPT !.issued = Append(s2.issued, [id |-> id, seq |-> s2.orderCounter])],
         id |-> id]

\* collectFormData: [s, order]
collectFormData(s, form, now, writeOk) ==
    LET quantity == ParseInt(form.quantity)
        burgerPrice == getBurgerPrice(form.hamburgerType)
        totalPrice == JsTimes(burgerPrice, quantity)
        instructions == Trim(form.specialInstructions)
        generated == generateOrderId(s, writeOk)
    IN  [s |-> generated.s,
         order |-> [customerName |-> Trim(form.customerName),
                    phoneNumber |-> Trim(form.phoneNumber),
                    hamburgerType |-> form.hamburgerType,
                    quantity |-> quantity,
                    specialInstructions |->
                        IF instructions = <<>> THEN <<"N", "o", "n", "e">> ELSE instructions,
                    unitPrice |-> burgerPrice,
                    totalPrice |-> totalPrice,
                    status |-> "Pending",
                    orderDate |-> now,
                    orderId |-> generated.id]]

showConfirmationModal(s) == IF s.threw THEN s ELSE [s EXCEPT !.confirmationActive = TRUE]

\* closeConfirmationModal as it would be if it gave the id of the draft back.
closeConfirmationModalRollsBack(s) ==
    IF s.threw THEN s
    ELSE [s EXCEPT !.confirmationActive = FALSE, !.currentOrder = JsNull,
                   !.orderCounter = IF IsNumber(@) /\ s.currentOrder # JsNull
                                    THEN Num(@.v - 1) ELSE @]

\* closeConfirmationModal as it would be without this.currentOrder = null.
closeConfirmationModalKeepsDraft(s) ==
    IF s.threw THEN s ELSE [s EXCEPT !.confirmationActive = FALSE]

closeConfirmationModal(s) ==
    IF s.threw THEN s
    ELSE [s EXCEPT !.confirmationActive = FALSE, !.currentOrder = JsNull]

showSuccessModal(s) == IF s.threw THEN s ELSE [s EXCEPT !.successActive = TRUE]

closeSuccessModal(s) == IF s.threw THEN s ELSE [s EXCEPT !.successActive = FALSE]

\* handleFormSubmit as it would be without the call of validateForm.
handleFormSubmitUnvalidated(s, form, now, writeOk) ==
    LET collected == collectFormData(s, form, now, writeOk)
    IN  showConfirmationModal([collected.s EXCEPT !.currentOrder = collected.order])

\* handleFormSubmit as it would be if it called generateOrderId before
\* validateForm.
handleFormSubmitBurnsId(s, form, now, writeOk) ==
    IF ~validateForm(form).isValid THEN generateOrderId(s, writeOk).s
    ELSE LET collected == collectFormData(s, form, now, writeOk)
         IN  showConfirmationModal([collected.s EXCEPT !.currentOrder = collected.order])

\* handleFormSubmit
handleFormSubmit(s, form, now, writeOk) ==
    IF ~validateForm(form).isValid THEN s
    ELSE LET collected == collectFormData(s, form, now, writeOk)
         IN  showConfirmationModal([collected.s EXCEPT !.currentOrder = collected.order])

\* createOrderRow: the cells of the row.  Reading a property of null throws.
createOrderRow(order) ==
    [customerName |-> order.customerName,
     orderId |-> order.orderId,
     phoneNumber |-> order.phoneNumber,
     hamburgerType |-> order.hamburgerType,
     unitPrice |-> ToFixed2(order.unitPrice),
     quantity |-> order.quantity,
     specialInstructions |-> order.specialInstructions,
     status |-> order.status,
     totalPrice |-> ToFixed2(order.totalPrice)]

\* The elements forEach reaches before createOrderRow throws.
RECURSIVE RenderablePrefix(_)
RenderablePrefix(list) ==
    IF list = <<>> \/ ~IsOrder(Head(list)) THEN <<>>
    ELSE <<Head(list)>> \o RenderablePrefix(Tail(list))

\* renderOrders: the table body is emptied, then a row is appended for each
\* order.  this.orders.length throws on null, and createOrderRow on an element
\* that is no order; the rows appended before stay.
renderOrders(s) ==
    IF s.threw THEN s
    ELSE IF ~IsArray(s.orders) THEN [s EXCEPT !.rows = <<>>, !.threw = TRUE]
    ELSE LET shown == RenderablePrefix(s.orders.v)
         IN  [s EXCEPT !.rows = [i \in 1..Len(shown) |-> createOrderRow(shown[i])],
                       !.threw = Len(shown) < Len(s.orders.v)]

\* The same with push in the place of unshift: the draft goes to the back.
unshiftCurrentOrderAtBack(s) ==
    IF s.threw THEN s
    ELSE IF ~IsArray(s.orders) THEN [s EXCEPT !.threw = TRUE]
    ELSE [s EXCEPT !.orders = JsArray(Append(s.orders.v, s.currentOrder))]

\* this.orders.unshift(this.currentOrder): throws unless this.orders is an array.
unshiftCurrentOrder(s) ==
    IF s.threw THEN s
    ELSE IF ~IsArray(s.orders) THEN [s EXCEPT !.threw = TRUE]
    ELSE [s EXCEPT !.orders = JsArray(<<s.currentOrder>> \o s.orders.v)]

setOrderNumber(s) ==
    IF s.threw THEN s ELSE [s EXCEPT !.orderNumberText = s.currentOrder.orderId]

\* confirmOrder
confirmOrder(s, writeOk) ==
    IF s.currentOrder = JsNull THEN s
    ELSE renderOrders(
            showSuccessModal(
              closeConfirmationModal(
                setOrderNumber(
                  saveOrdersToStorage(unshiftCurrentOrder(s), writeOk)))))

\* The keydown listener as it would be if it closed the success modal only.
escapeKeySuccessOnly(s) == IF s.successActive THEN closeSuccessModal(s) ELSE s

\* The keydown listener of the document.
escapeKey(s) ==
    LET s1 == IF s.confirmationActive THEN closeConfirmationModal(s) ELSE s
    IN  IF s1.successActive THEN closeSuccessModal(s1) ELSE s1

\* The click listener of the confirmation modal, for a click whose target is
\* the modal itself (its backdrop); a click on its content does nothing.
confirmationModalClick(s) == closeConfirmationModal(s)

\* The click listener of the success modal, for a click on its backdrop.
successModalClick(s) == closeSuccessModal(s)

\* The constructor on a freshly loaded page: no modal is active and the table
\* body is empty when renderOrders runs.
constructor(storage, issuedBefore, readOk) ==
    renderOrders(
        [orders |-> loadOrdersFromStorage(storage, readOk),
         orderCounter |-> loadOrderCounterFromStorage(storage, readOk),
         currentOrder |-> JsNull,
         confirmationActive |-> FALSE,
         successActive |-> FALSE,
         orderNumberText |-> <<>>,
         rows |-> <<>>,
         localStorage |-> storage,
         issued |-> issuedBefore,
         threw |-> FALSE,
         ordersWrite |-> "none",
         counterWrite |-> "none"])

-----------------------------------------------------------------------------------------------------------------------------------------------------
(* The inputs: what the user types and what the storage holds at the first *)
(* start.                                                                  *)

PhoneInternational == <<"+", "1", "5", "5", "5", "1", "2", "3", "4", "5", "6", "7">>
PhoneLocal == <<"(", "5", "5", "5", ")", " ", "1", "2", "3", "-", "4", "5", "6", "7">>
PhoneShort == <<"1", "2", "3">>
PhoneLetters == <<"a", "b", "c">>

Form(name, phone, burger, quantity, instructions) ==
    [customerName |-> name, phoneNumber |-> phone, hamburgerType |-> burger,
     quantity |-> quantity, specialInstructions |-> instructions]

\* What the user may have typed when submit fires: the two phone formats and
\* a burger type the catalog does not hold; a blank name with a short phone
\* number; a phone number of letters with no burger selected; and nothing at
\* all.
FormInputs ==
    {Form(<<" ", "A", "l", " ">>, PhoneInternational, ClassicBeef, <<"3">>, <<>>),
     Form(<<"B", "o">>, PhoneLocal, "Mystery Burger", <<"1">>, <<"x">>),
     Form(<<" ", " ">>, PhoneShort, ClassicBeef, <<"1">>, <<>>),
     Form(<<"A", "l">>, PhoneLetters, NoSelection, <<"1">>, <<>>),
     Form(<<>>, <<>>, NoSelection, <<"1">>, <<>>)}

\* What new Date().toISOString() returns.
Timestamps == {"2024-05-01T10:00:00.000Z"}

\* An order that an earlier session stored.
PriorOrder ==
    [customerName |-> <<"D", "i">>,
     phoneNumber |-> PhoneInternational,
     hamburgerType |-> GrilledChicken,
     quantity |-> Num(2),
     specialInstructions |-> <<"N", "o", "n", "e">>,
     unitPrice |-> Num(1199),
     totalPrice |-> Num(2398),
     status |-> "Pending",
     orderDate |-> "2024-04-30T09:00:00.000Z",
     orderId |-> <<"B", "C", "1", "0", "0", "1">>]

Storage(ordersValue, counterValue) == [orders |-> ordersValue, counter |-> counterValue]

\* The storage at the first start.  burgercraft_orders: never set, a list of
\* orders, the JSON of null, a text that is no JSON, the JSON of an array
\* holding null.  burgercraft_order_counter: never set, a saved counter, the
\* empty string, letters, digits followed by other characters.
InitialStorages ==
    {Storage(Absent, Absent),
     Storage(JsonText(JsArray(<<PriorOrder>>)), Text(<<"1", "0", "0", "1">>)),
     Storage(Text(<<"n", "u", "l", "l">>), Text(<<>>)),
     Storage(Text(<<"{">>), Text(<<"a", "b", "c">>)),
     Storage(JsonText(JsArray(<<JsNull>>)), Text(<<"1", "2", "p", "x">>))}

-----------------------------------------------------------------------------
(* The state machine: one action for each listener bindEvents registers,   *)
(* and one for a reload of the page.                                       *)

\* The state a handler starts from.
App ==
    [orders |-> orders, orderCounter |-> orderCounter, currentOrder |-> currentOrder,
     confirmationActive |-> confirmationActive, successActive |-> successActive,
     orderNumberText |-> orderNumberText, rows |-> rows, localStorage |-> localStorage,
     issued |-> issued, threw |-> FALSE, ordersWrite |-> "none", counterWrite |-> "none"]

\* A storage call of the handler threw.
Faulty(s, readOk) == s.ordersWrite = "failed" \/ s.counterWrite = "failed" \/ ~readOk

\* The environment may let a storage call of this handler throw.
MayFail(ok) == ok \/ env.faults < MaxFaults

FaultsAfter(s, readOk) == env.faults + (IF Faulty(s, readOk) THEN 1 ELSE 0)

\* A setItem of the handler threw.
WriteFailed(s) == s.ordersWrite = "failed" \/ s.counterWrite = "failed"

\* The history of the environment after a handler that ended in s.
EnvAfter(s, readOk) ==
    [env EXCEPT !.faults = FaultsAfter(s, readOk),
                !.writeFailed = @ \/ WriteFailed(s)]

\* The last handler was no submit.
NotSubmitted == [form |-> "none", errors |-> {}, notification |-> "none"]

\* showFormErrors: the message showError writes into the error notification.
FormErrorsMessage == "Please fill in all required fields correctly"

\* What validateForm was given, the errors it showed, and the text of the
\* error notification when handleFormSubmit returns: showFormErrors writes
\* its message over the one validateForm left there.
Submitted(form) ==
    [form |-> form,
     errors |-> validateForm(form).errors,
     notification |-> IF validateForm(form).isValid THEN "none" ELSE FormErrorsMessage]

\* What a handler did to the draft and the list, for the history.
Outcome(info) ==
    IF info.op = "submit" /\ info.valid THEN "built"
    ELSE IF info.op = "confirm" /\ info.ordersWrite # "none" THEN "appended"
    ELSE "other"

\* What the history keeps of a handler that ended in s: valid says that it
\* was a submit whose input passed validateForm, prev what the handler before
\* it did.
Info(op, valid, readOk, prev, s) ==
    [op |-> op, valid |-> valid, readOk |-> readOk, prev |-> prev,
     ordersWrite |-> s.ordersWrite, counterWrite |-> s.counterWrite, threw |-> s.threw]

\* The handler ended in s.
Ends(s) ==
    /\ orders' = s.orders
    /\ orderCounter' = s.orderCounter
    /\ currentOrder' = s.currentOrder
    /\ confirmationActive' = s.confirmationActive
    /\ successActive' = s.successActive
    /\ orderNumberText' = s.orderNumberText
    /\ rows' = s.rows
    /\ localStorage' = s.localStorage
    /\ issued' = s.issued

Handled(op, valid, s) ==
    /\ Ends(s)
    /\ last' = Info(op, valid, TRUE, Outcome(last), s)
    /\ env' = EnvAfter(s, TRUE)

Init ==
    \E storage \in InitialStorages, readOk \in BOOLEAN :
        LET s == constructor(storage, <<>>, readOk)
        IN  /\ orders = s.orders
            /\ orderCounter = s.orderCounter
            /\ currentOrder = s.currentOrder
            /\ confirmationActive = s.confirmationActive
            /\ successActive = s.successActive
            /\ orderNumberText = s.orderNumberText
            /\ rows = s.rows
            /\ localStorage = s.localStorage
            /\ issued = s.issued
            /\ last = Info("start", FALSE, readOk, "other", s)
            /\ env = [initial |-> storage, faults |-> IF Faulty(s, readOk) THEN 1 ELSE 0,
                      writeFailed |-> FALSE]
            /\ submitted = NotSubmitted

\* The submit listener of the form.
Submit ==
    \E form \in FormInputs, now \in Timestamps, writeOk \in BOOLEAN :
        /\ validateForm(form).isValid => Len(issued) < MaxIssued
        /\ MayFail(writeOk)
        /\ Handled("submit", validateForm(form).isValid,
                   handleFormSubmit(App, form, now, writeOk))
        /\ submitted' = Submitted(form)

\* The click listener of the confirm button.
Confirm ==
    \E writeOk \in BOOLEAN :
        /\ MayFail(writeOk)
        /\ Handled("confirm", FALSE, confirmOrder(App, writeOk))
        /\ submitted' = NotSubmitted

\* The click listeners of the close button and of the edit button.
Cancel ==
    /\ Handled("cancel", FALSE, closeConfirmationModal(App))
    /\ submitted' = NotSubmitted

\* The click listener of the confirmation modal, on its backdrop.
ConfirmationModalClick ==
    /\ Handled("backdrop", FALSE, confirmationModalClick(App))
    /\ submitted' = NotSubmitted

\* The click listener of the success modal, on its backdrop.
SuccessModalClick ==
    /\ Handled("successBackdrop", FALSE, successModalClick(App))
    /\ submitted' = NotSubmitted

\* The click listener of the close button of the success modal.
CloseSuccess ==
    /\ Handled("closeSuccess", FALSE, closeSuccessModal(App))
    /\ submitted' = NotSubmitted

\* The keydown listener of the document, on Escape.
Escape ==
    /\ Handled("escape", FALSE, escapeKey(App))
    /\ submitted' = NotSubmitted

\* The page is loaded again: DOMContentLoaded constructs a new app over the
\* storage the last session left.  readOk says whether the page may read
\* localStorage: when it may not, both getItem calls throw.
Restart ==
    \E readOk \in BOOLEAN :
        LET s == constructor(localStorage, issued, readOk)
        IN  /\ MayFail(readOk)
            /\ Ends(s)
            /\ last' = Info("restart", FALSE, readOk, Outcome(last), s)
            /\ env' = EnvAfter(s, readOk)
            /\ submitted' = NotSubmitted

Next ==
    \/ Submit
    \/ Confirm
    \/ Cancel
    \/ ConfirmationModalClick
    \/ SuccessModalClick
    \/ CloseSuccess
    \/ Escape
    \/ Restart

Spec == Init /\ [][Next]_vars

-----------------------------------------------------------------------------
(* The states of the confirmation workflow.                                *)

Idle == currentOrder = JsNull /\ ~confirmationActive

AwaitingConfirmation == currentOrder # JsNull /\ confirmationActive

\* What a handler leaves in memory and on the page.
InMemory(s) ==
    [orders |-> s.orders, orderCounter |-> s.orderCounter, currentOrder |-> s.currentOrder,
     confirmationActive |-> s.confirmationActive, successActive |-> s.successActive,
     orderNumberText |-> s.orderNumberText, rows |-> s.rows]

Constructed == last.op \in {"start", "restart"}

BuiltDraft == last.op = "submit" /\ last.valid

-----------------------------------------------------------------------------
(* Properties.                                                             *)

\* C1: every id generateOrderId returns is strictly greater (by its sequence
\* number) than every id it returned before, in this session or an earlier
\* one, and no id is returned twice.
C1_IdsStrictlyIncrease ==
    \A i, j \in 1..Len(issued) :
        i < j =>
            /\ IsNumber(issued[i].seq) /\ IsNumber(issued[j].seq)
            /\ issued[j].seq.v > issued[i].seq.v
            /\ issued[j].id # issued[i].id

\* C2: a valid submit changes neither the order list nor the persisted list
\* and advances the counter; a cancel that follows it leaves both lists and
\* the counter, in memory and persisted, as the submit left them, and
\* discards the draft.
C2_CancelAfterSubmit ==
    [][ /\ BuiltDraft' =>
            /\ orders' = orders
            /\ localStorage'.orders = localStorage.orders
            /\ orderCounter' = JsIncrement(orderCounter)
        /\ (BuiltDraft /\ last'.op = "cancel") =>
            /\ orders' = orders
            /\ localStorage' = localStorage
            /\ currentOrder' = JsNull
            /\ ~confirmationActive'
            /\ orderCounter' = orderCounter ]_vars

\* C2: a cancel has followed a valid submit; the id of the draft is burnt.
C2_Witness ==
    /\ last.op = "cancel" /\ last.prev = "built"
    /\ Idle
    /\ Len(issued) > 0 /\ orderCounter = issued[Len(issued)].seq
    /\ IsArray(orders)
    /\ \A i \in 1..Len(orders.v) :
           IsOrder(orders.v[i]) => orders.v[i].orderId # issued[Len(issued)].id

\* C3: a confirm that finds a draft puts it in front of the order list and
\* leaves the workflow Idle with no draft; a confirm that finds no draft
\* changes neither the order list nor the storage.
C3_ConfirmAppendsOnce ==
    [][ /\ (last'.op = "confirm" /\ currentOrder # JsNull) =>
            /\ currentOrder' = JsNull
            /\ ~confirmationActive'
            /\ IsArray(orders)
            /\ orders' = JsArray(<<currentOrder>> \o orders.v)
        /\ (last'.op = "confirm" /\ currentOrder = JsNull) =>
            /\ orders' = orders
            /\ localStorage' = localStorage ]_vars

IsSerializedOrders(stored) ==
    /\ stored.t = "json"
    /\ IsArray(stored.v)
    /\ \A i \in 1..Len(stored.v.v) : IsOrder(stored.v.v[i])

\* C5: loadOrdersFromStorage returns a sequence, and the empty one when
\* the stored value is absent, unreadable or not the serialization of a
\* sequence of orders.
C5_LoadOrdersFallsBack ==
    Constructed =>
        /\ IsArray(orders)
        /\ (~last.readOk \/ localStorage.orders = Absent
                \/ ~IsSerializedOrders(localStorage.orders))
            => orders = JsArray(<<>>)

\* A stored text that is a decimal integer.
IsDecimalInteger(stored) == stored.t = "text" /\ stored.s # <<>> /\ AllDigits(stored.s)

\* C6: loadOrderCounterFromStorage returns 1000 when the stored counter is
\* absent, unreadable or no decimal integer, and the saved integer otherwise.
C6_LoadCounterFallsBack ==
    Constructed =>
        orderCounter =
            IF ~last.readOk \/ localStorage.counter = Absent
                   \/ ~IsDecimalInteger(localStorage.counter)
            THEN Num(1000)
            ELSE Num(DigitPrefixValue(localStorage.counter.s, 0))

\* C7: the workflow enters AwaitingConfirmation, and holds a new draft, only
\* by a submit whose input passed validateForm; a submit whose input fails
\* validateForm leaves an Idle workflow Idle.
C7_AwaitingOnlyAfterValidSubmit ==
    [][ /\ (AwaitingConfirmation' /\ ~AwaitingConfirmation) => BuiltDraft'
        /\ (currentOrder' # JsNull /\ currentOrder' # currentOrder) => BuiltDraft'
        /\ (last'.op = "submit" /\ ~last'.valid /\ Idle) => Idle' ]_vars

\* C7: a valid submit has built a draft and shown the confirmation modal.
C7_Witness == BuiltDraft /\ AwaitingConfirmation /\ last.prev = "other"

\* C8: a submit that arrives while a draft awaits confirmation leaves the
\* draft as it is, builds no second draft and does not advance the counter.
C8_SubmitWhileAwaitingRejected ==
    [][ (last'.op = "submit" /\ AwaitingConfirmation) =>
            /\ currentOrder' = currentOrder
            /\ orderCounter' = orderCounter
            /\ issued' = issued ]_vars

\* C9: a valid submit increases the counter by exactly 1 and leaves the
\* persisted counter equal to it; no other handler changes the counter; from
\* empty storage the first id is BC1001.
C9_CounterDiscipline ==
    [][ /\ BuiltDraft' =>
            /\ IsNumber(orderCounter)
            /\ orderCounter' = Num(orderCounter.v + 1)
            /\ localStorage'.counter # Absent
            /\ ParseInt(localStorage'.counter.s) = orderCounter'
        /\ (~BuiltDraft' /\ last'.op # "restart") => orderCounter' = orderCounter
        /\ (env.initial = Storage(Absent, Absent) /\ issued = <<>> /\ issued' # <<>>) =>
            issued'[1].id = <<"B", "C", "1", "0", "0", "1">> ]_vars

\* C10: a setItem that throws changes nothing of what a handler leaves in
\* memory: the submit still builds the draft with the incremented id and
\* shows the modal, the confirm still puts the draft in front of the list
\* and returns to Idle, as it does when the write succeeds.
C10_WriteFailureDoesNotBlock ==
    [][ /\ (BuiltDraft' /\ last'.counterWrite = "failed") =>
            /\ orderCounter' = JsIncrement(orderCounter)
            /\ currentOrder' # JsNull
            /\ currentOrder'.orderId = FormatOrderId(JsIncrement(orderCounter))
            /\ AwaitingConfirmation'
        /\ (last'.op = "confirm" /\ last'.ordersWrite = "failed") =>
            /\ IsArray(orders)
            /\ orders' = JsArray(<<currentOrder>> \o orders.v)
            /\ Idle'
            /\ InMemory(App)' = InMemory(confirmOrder(App, TRUE)) ]_vars

\* C10: a confirm whose setItem threw has put the draft in front of the list.
C10_Witness ==
    /\ last.op = "confirm" /\ last.ordersWrite = "failed"
    /\ Idle
    /\ IsArray(orders) /\ Len(orders.v) >= 1 /\ IsOrder(orders.v[1])

\* C11: in a session the order list changes only by a confirm that finds a
\* draft, and then the new list is the draft followed by the old list: the
\* orders that were in the list stay, as they were and in their order.
C11_ListOnlyPrepends ==
    [][ last'.op # "restart" =>
            \/ orders' = orders
            \/ /\ last'.op = "confirm"
               /\ currentOrder # JsNull
               /\ IsArray(orders)
               /\ orders' = JsArray(<<currentOrder>> \o orders.v) ]_vars

\* C11: a confirm has put a draft in front of a list that held an order; the
\* order it held is now the second.
C11_Witness ==
    /\ last.op = "confirm" /\ last.ordersWrite # "none"
    /\ IsArray(orders) /\ Len(orders.v) = 2
    /\ orders.v[2] = PriorOrder
    /\ IsOrder(orders.v[1]) /\ orders.v[1] # PriorOrder

\* The sequence number an order id carries after its two letters.
SequenceNumber(id) == ParseInt(SubSeq(id, 3, Len(id)))

\* C12: the order list is newest first: of any two orders in it, the one
\* nearer the front carries the greater sequence number in its id, so no two
\* orders of the list share an id.
C12_NewestFirst ==
    IsArray(orders) =>
        \A i, j \in 1..Len(orders.v) :
            (i < j /\ IsOrder(orders.v[i]) /\ IsOrder(orders.v[j])) =>
                /\ IsNumber(SequenceNumber(orders.v[i].orderId))
                /\ IsNumber(SequenceNumber(orders.v[j].orderId))
                /\ SequenceNumber(orders.v[i].orderId).v > SequenceNumber(orders.v[j].orderId).v
                /\ orders.v[i].orderId # orders.v[j].orderId

\* C13: from AwaitingConfirmation a click on the backdrop of the confirmation
\* modal, and the Escape key, leave exactly the state that cancel leaves.
C13_DismissalIsCancel ==
    [][ (AwaitingConfirmation /\ last'.op \in {"backdrop", "escape"}) =>
            /\ InMemory(App)' = InMemory(closeConfirmationModal(App))
            /\ localStorage' = localStorage ]_vars

\* C13, amended: the click on the backdrop leaves exactly the state that
\* cancel leaves; the Escape key leaves that state with the success modal
\* closed as well.  Both discard the draft, close the confirmation modal and
\* leave the order list, the counter and the storage as they were.
C13_DismissalIsCancelUpToSuccessModal ==
    [][ /\ (AwaitingConfirmation /\ last'.op = "backdrop") =>
            InMemory(App)' = InMemory(closeConfirmationModal(App))
        /\ (AwaitingConfirmation /\ last'.op = "escape") =>
            InMemory(App)' = InMemory(closeSuccessModal(closeConfirmationModal(App)))
        /\ (AwaitingConfirmation /\ last'.op \in {"backdrop", "escape"}) =>
            /\ currentOrder' = JsNull
            /\ ~confirmationActive'
            /\ orders' = orders
            /\ orderCounter' = orderCounter
            /\ localStorage' = localStorage ]_vars

\* C13: the Escape key has dismissed the confirmation modal of a draft.
C13_Witness ==
    /\ last.op = "escape" /\ last.prev = "built"
    /\ Idle
    /\ Len(issued) > 0 /\ orderCounter = issued[Len(issued)].seq

\* validateForm showed an error at the phone field in the last submit.
PhoneRejected == \E e \in submitted.errors : e.field = "phoneNumber"

ErrorShownFor(field) == \E e \in submitted.errors : e.field = field

\* C15: validateForm returns false exactly when the name is empty after
\* trimming, or the phone number is empty after trimming or does not pass
\* isValidPhoneNumber, or no burger type is selected; and it shows an error
\* for each of the three fields that fails, and for no other, however many
\* fail.
C15_ValidateFormReportsEachField ==
    last.op = "submit" =>
        LET form == submitted.form
            nameFails == Trim(form.customerName) = <<>>
            phoneFails ==
                Trim(form.phoneNumber) = <<>> \/ ~isValidPhoneNumber(form.phoneNumber)
            burgerFails == form.hamburgerType = NoSelection
        IN  /\ last.valid <=> ~(nameFails \/ phoneFails \/ burgerFails)
            /\ ErrorShownFor("customerName") <=> nameFails
            /\ ErrorShownFor("phoneNumber") <=> phoneFails
            /\ ErrorShownFor("hamburgerType") <=> burgerFails

\* C15: a submit in which all three fields failed has shown three errors.
C15_Witness ==
    /\ last.op = "submit" /\ ~last.valid
    /\ submitted.errors = {NameRequired, PhoneRequired, BurgerRequired}

\* The order carries the catalog price of its type, 12.99 for a type the
\* catalog does not hold, and the product of that price and its quantity.
Priced(order) ==
    /\ order.hamburgerType = ClassicBeef => order.unitPrice = Num(1299)
    /\ order.hamburgerType = GrilledChicken => order.unitPrice = Num(1199)
    /\ order.hamburgerType = PlantBased => order.unitPrice = Num(1099)
    /\ order.hamburgerType = DeluxeBBQ => order.unitPrice = Num(1599)
    /\ order.hamburgerType \notin {ClassicBeef, GrilledChicken, PlantBased, DeluxeBBQ}
           => order.unitPrice = Num(1299)
    /\ IsNumber(order.quantity) /\ IsNumber(order.unitPrice)
    /\ order.totalPrice = Num(order.unitPrice.v * order.quantity.v)
    /\ (order.hamburgerType = ClassicBeef /\ order.quantity = Num(3))
           => order.totalPrice = Num(3897)

\* C16: the draft collectFormData builds, and every order of the list, has
\* the catalog price of its type as unitPrice (12.99 for a type not in the
\* catalog) and unitPrice * quantity as totalPrice; Classic Beef Burger with
\* quantity 3 has 12.99 and 38.97.
C16_Pricing ==
    /\ currentOrder # JsNull => Priced(currentOrder)
    /\ IsArray(orders) =>
           \A i \in 1..Len(orders.v) : IsOrder(orders.v[i]) => Priced(orders.v[i])

\* C16: the list holds three Classic Beef Burgers for 38.97 and an order of
\* a type the catalog does not hold at 12.99.
C16_Witness ==
    /\ IsArray(orders)
    /\ \E i, j \in 1..Len(orders.v) :
           /\ IsOrder(orders.v[i]) /\ IsOrder(orders.v[j])
           /\ orders.v[i].hamburgerType = ClassicBeef
           /\ orders.v[i].quantity = Num(3)
           /\ orders.v[i].totalPrice = Num(3897)
           /\ orders.v[j].hamburgerType = "Mystery Burger"
           /\ orders.v[j].unitPrice = Num(1299)

\* C17: a confirm from AwaitingConfirmation leaves the workflow Idle, the
\* confirmed draft first in the order list, its orderId as the order number
\* of the success modal, and one row for each order of the list, in the
\* order of the list.
C17_ConfirmEffects ==
    [][ (last'.op = "confirm" /\ AwaitingConfirmation) =>
            /\ Idle'
            /\ IsArray(orders')
            /\ Len(orders'.v) >= 1
            /\ orders'.v[1] = currentOrder
            /\ orderNumberText' = currentOrder.orderId
            /\ Len(rows') = Len(orders'.v)
            /\ \A i \in 1..Len(rows') :
                   /\ IsOrder(orders'.v[i])
                   /\ rows'[i] = createOrderRow(orders'.v[i]) ]_vars

\* C18: every id generateOrderId has returned is the two characters BC
\* followed by exactly four decimal digits.
C18_IdFormat ==
    \A i \in 1..Len(issued) :
        /\ Len(issued[i].id) = 6
        /\ SubSeq(issued[i].id, 1, 2) = <<"B", "C">>
        /\ AllDigits(SubSeq(issued[i].id, 3, 6))

\* C19: between handlers a draft is held exactly when the confirmation modal
\* is active, so confirmOrder finds a draft, and the Escape listener an
\* active confirmation modal, exactly when the other does.
C19_DraftIffModal == (currentOrder # JsNull) <=> confirmationActive

\* C19: a draft is held under the active modal after an earlier draft was
\* confirmed and the modal closed.
C19_Witness ==
    /\ BuiltDraft /\ last.prev = "appended"
    /\ currentOrder # JsNull /\ confirmationActive
    /\ IsArray(orders) /\ Len(orders.v) >= 1

\* The storage at the first start held no value, or a list of orders, under
\* the orders key, and no value, or a decimal integer, under the counter key.
WellFormedStart ==
    /\ env.initial.orders = Absent \/ IsSerializedOrders(env.initial.orders)
    /\ env.initial.counter = Absent \/ IsDecimalInteger(env.initial.counter)

\* A restart now, reading the storage, would recover the order list and the
\* counter as they are in memory, and hold no draft.
RestartRecovers ==
    LET reloaded == constructor(localStorage, issued, TRUE)
    IN  /\ loadOrdersFromStorage(localStorage, TRUE) = orders
        /\ loadOrderCounterFromStorage(localStorage, TRUE) = orderCounter
        /\ reloaded.orders = orders
        /\ reloaded.orderCounter = orderCounter
        /\ reloaded.currentOrder = JsNull

\* C20: when the first storage was well-formed or empty and no setItem has
\* thrown, between handlers the persisted order list and counter are those
\* in memory: a restart recovers both and loses only the draft.
C20_PersistedEqualsInMemory == (WellFormedStart /\ ~env.writeFailed) => RestartRecovers

\* C20, amended: the same, when no getItem has thrown either.
C20_PersistedEqualsInMemoryNoFault == (WellFormedStart /\ env.faults = 0) => RestartRecovers

\* C20: a restart has recovered two orders and the counter of a session that
\* no storage call failed, and has lost the draft that was awaiting.
C20_Witness ==
    /\ last.op = "restart" /\ last.prev = "built"
    /\ WellFormedStart /\ env.initial.orders # Absent /\ env.faults = 0
    /\ IsArray(orders) /\ Len(orders.v) = 2
    /\ orderCounter = Num(1003)
    /\ currentOrder = JsNull

\* C21: a submit whose input fails validateForm leaves the counter, the
\* order list and the storage as they were, keeps the draft and the modal
\* as they were, and issues no order id.
C21_RejectedSubmitChangesNothing ==
    [][ (last'.op = "submit" /\ ~last'.valid) =>
            /\ orderCounter' = orderCounter
            /\ orders' = orders
            /\ localStorage' = localStorage
            /\ currentOrder' = currentOrder
            /\ confirmationActive' = confirmationActive
            /\ issued' = issued ]_vars

\* C21: a submit has been rejected after an order was confirmed; the counter
\* is the sequence number of the last id issued and the storage holds it.
C21_Witness ==
    /\ last.op = "submit" /\ ~last.valid /\ last.prev = "appended"
    /\ submitted.errors # {}
    /\ submitted.notification = FormErrorsMessage
    /\ Len(issued) > 0 /\ orderCounter = issued[Len(issued)].seq
    /\ env.faults = 0
    /\ localStorage.counter = Text(NumberToString(orderCounter))
    /\ IsArray(orders) /\ Len(orders.v) >= 1

====
